---- MODULE Spec2Model ----
(***************************************************************************)
(* Model of the two batch jobs of hst_bday_downloader:                     *)
(*   stage 1  download.js         (main / processRow / downloadFile)       *)
(*   stage 2  enrich-metadata.js  (main / processFolder)                   *)
(* Both walk an ordered list of records with one shared browser page and   *)
(* keep their state in ./dumps/<MM-DD>/ on the filesystem.                 *)
(***************************************************************************)
EXTENDS Integers, Sequences, FiniteSets, TLC

(***************************************************************************)
(* Bounds of the model                                                     *)
(***************************************************************************)
MaxRecords == 2      \* rows of data.csv
MaxAssets == 2       \* entries of a page's Downloads list
MaxRuns == 2         \* consecutive runs (of either stage) over the same dumps/
MaxFaults == 3       \* failures of the network, the disk and the browser in all
MaxCount == 2        \* downloads counted before a file name is chosen on its own

(***************************************************************************)
(* Program constants                                                       *)
(***************************************************************************)
MAX_RETRIES == 3
DELAY_MS == 800            \* download.js
ENRICH_DELAY_MS == 500     \* enrich-metadata.js

MONTHS ==
  [m \in {"January", "February", "March", "April", "May", "June", "July",
          "August", "September", "October", "November", "December"} |->
     CASE m = "January" -> "01" [] m = "February" -> "02" [] m = "March" -> "03"
       [] m = "April" -> "04" [] m = "May" -> "05" [] m = "June" -> "06"
       [] m = "July" -> "07" [] m = "August" -> "08" [] m = "September" -> "09"
       [] m = "October" -> "10" [] m = "November" -> "11" [] m = "December" -> "12"]

(***************************************************************************)
(* Inputs.  A Date cell is held as the list of its space-separated words   *)
(* (what dateStr.split(' ') yields).  <<"March">> is a cell without a day. *)
(***************************************************************************)
Dates == { <<"January", "1", "2019">>, <<"March", "5", "2021">>, <<"March">> }

RecordLists == UNION { [1..n -> Dates] : n \in 1..MaxRecords }

\* An entry of pageData.downloads: type and resolution ("" is null).
Descriptors ==
  { [type |-> "pdf", resolution |-> ""],
    [type |-> "jpg", resolution |-> "2400x3000"] }

PageLists == UNION { [1..n -> Descriptors] : n \in 0..MaxAssets }

(***************************************************************************)
(* Pure helpers                                                            *)
(***************************************************************************)
\* String.prototype.padStart(2, '0')
PadStart2(s) == IF Len(s) >= 2 THEN s ELSE IF Len(s) = 1 THEN "0" \o s ELSE "00"

\* String.prototype.endsWith
EndsWith(s, suffix) ==
  /\ Len(s) >= Len(suffix)
  /\ SubSeq(s, Len(s) - Len(suffix) + 1, Len(s)) = suffix

\* parseDateToFolder throws a TypeError when parts[1] is undefined.
ParseDateThrows(parts) == Len(parts) < 2

parseDateToFolder(parts) ==
  LET month == IF parts[1] \in DOMAIN MONTHS THEN MONTHS[parts[1]] ELSE "undefined"
      day == PadStart2(parts[2])
  IN month \o "-" \o day

\* The folder names in the order Array.prototype.sort() gives them.
KeyOrder == << "01-01", "03-05" >>

\* const [width] = download.resolution.split('x'): the text before the first x.
RECURSIVE PrefixBefore(_, _, _)
PrefixBefore(s, sep, k) ==
  IF k > Len(s) THEN s
  ELSE IF SubSeq(s, k, k) = sep THEN SubSeq(s, 1, k - 1)
  ELSE PrefixBefore(s, sep, k + 1)

SplitX(s) == PrefixBefore(s, "x", 1)

\* parseInt: the value of the leading decimal digits; NotANumber, below
\* every threshold as NaN fails every comparison, when there is none.
NotANumber == -1
Digits == << "0", "1", "2", "3", "4", "5", "6", "7", "8", "9" >>
IsDigit(c) == \E v \in 1..10 : Digits[v] = c
DigitValue(c) == (CHOOSE v \in 1..10 : Digits[v] = c) - 1

RECURSIVE ParseDigits(_, _, _)
ParseDigits(s, k, acc) ==
  IF k > Len(s) \/ ~IsDigit(SubSeq(s, k, k)) THEN acc
  ELSE ParseDigits(s, k + 1, acc * 10 + DigitValue(SubSeq(s, k, k)))

parseInt(s) ==
  IF Len(s) = 0 \/ ~IsDigit(SubSeq(s, 1, 1)) THEN NotANumber ELSE ParseDigits(s, 1, 0)

\* Mutant: the width thresholds are exclusive.
FilenameExclusive(download, downloadedCount) ==
  IF download.type = "pdf" THEN "image.pdf"
  ELSE IF download.resolution # "" THEN
    LET width == parseInt(SplitX(download.resolution)) IN
      IF width > 2000 THEN "full.jpg"
      ELSE IF width > 800 THEN "thumb_1000.jpg"
      ELSE IF width > 300 THEN "thumb_400.jpg"
      ELSE "thumb_200.jpg"
  ELSE "image_" \o ToString(downloadedCount) \o ".jpg"

\* The file name chosen for one entry of the Downloads list.
Filename(download, downloadedCount) ==
  IF download.type = "pdf" THEN "image.pdf"
  ELSE IF download.resolution # "" THEN
    LET width == parseInt(SplitX(download.resolution)) IN
      IF width >= 2000 THEN "full.jpg"
      ELSE IF width >= 800 THEN "thumb_1000.jpg"
      ELSE IF width >= 300 THEN "thumb_400.jpg"
      ELSE "thumb_200.jpg"
  ELSE "image_" \o ToString(downloadedCount) \o ".jpg"

(***************************************************************************)
(* The filesystem under ./dumps: a function from the existing folders to   *)
(* their files, each file a function name -> content.  Content i >= 1 is   *)
(* what record i's page yields; 0 is a truncated (partially written) file. *)
(***************************************************************************)
Truncated == 0

FolderExists(f, k) == k \in DOMAIN f
FileExists(f, k, name) == FolderExists(f, k) /\ name \in DOMAIN f[k]
Readdir(f, k) == DOMAIN f[k]

EmptyDir == [n \in {} |-> Truncated]

\* fs.mkdir(folderPath, { recursive: true })
MkdirP(f, k) == IF FolderExists(f, k) THEN f ELSE f @@ (k :> EmptyDir)

\* fs.writeFile(path, data): the whole document replaces the file.
PutFile(f, k, name, content) ==
  [f EXCEPT ![k] = [n \in DOMAIN f[k] \cup {name} |->
                      IF n = name THEN content ELSE f[k][n]]]

\* Mutant: the test forgets the .pdf suffix.
HasImagesJpgOnly(files) == \E name \in files : EndsWith(name, ".jpg")

\* files.some(f => f.endsWith('.jpg') || f.endsWith('.pdf'))
HasImages(files) == \E name \in files : EndsWith(name, ".jpg") \/ EndsWith(name, ".pdf")

\* Mutant: the resume test is left out.
AlreadyProcessedNever(f, k) == FALSE

\* Mutant: the resume test looks at the image files only.
AlreadyProcessedImagesOnly(f, k) == FolderExists(f, k) /\ HasImages(Readdir(f, k))

\* Mutant: metadata.json alone counts as done.
AlreadyProcessedMetadataOnly(f, k) == FileExists(f, k, "metadata.json")

\* The resume test of processRow: fs.access(metadataPath) succeeds, the
\* folder is listed, and hasImages is true.
AlreadyProcessed(f, k) ==
  /\ FileExists(f, k, "metadata.json")
  /\ HasImages(Readdir(f, k))

\* The result objects processRow / processFolder return.
NoResult == [success |-> FALSE, skipped |-> FALSE, error |-> "pending"]
Skipped == [success |-> TRUE, skipped |-> TRUE, error |-> "none"]
Succeeded == [success |-> TRUE, skipped |-> FALSE, error |-> "none"]
Failed(msg) == [success |-> FALSE, skipped |-> FALSE, error |-> msg]

\* How a rejected fs.writeFile can leave its target: untouched ("error": the
\* open failed) or opened, truncated and not completed ("truncated").
WriteOutcomes == {"ok", "error", "truncated"}

\* How one attempt of downloadFile can go: fetch rejects, the status is not
\* ok, or the body arrives and fs.writeFile is called.
AttemptOutcomes == {"network", "status"} \cup WriteOutcomes

(***************************************************************************)
(* State                                                                   *)
(***************************************************************************)
VARIABLES
  records,          \* the parsed rows of data.csv (their Date cells)
  fs,               \* the folders and files under ./dumps
  dumpsDir,         \* whether ./dumps exists
  stage,            \* 0: nothing has run; 1: download.js; 2: enrich-metadata.js
  run,              \* number of runs started so far
  pc,               \* position of the running main / processRow / processFolder
  browser,          \* "none", "launched", "closed", "closeFailed"
  page,             \* whether context.newPage() has returned the page
  i,                \* the loop index of main
  folders,          \* stage 2: the sorted folder list
  stats,            \* { processed, skipped, failed }
  thrown,           \* the exception travelling out of main's try block
  mainErr,          \* what main().catch(console.error) was handed
  summary,          \* the counters printed by the end-of-run summary
  slept,            \* the delay main applied after the last record (ms)
  result,           \* the value returned by processRow / processFolder
  followed,         \* processRow has followed the /asset/ link
  downloads,        \* pageData.downloads
  dlIdx,            \* position of the download loop in downloads
  downloadedCount,  \* downloadedCount of processRow
  attempt,          \* attempt of downloadFile
  navs,             \* history: the calls of page.goto for the current record
  passes,           \* history: the extraction passes for the current record
  results,          \* history: the results of this run, in order
  shortfall,        \* history: per record, how its last persisted pass fared
  call,             \* history: the latest call of downloadFile
  doneAtStart,      \* history: the folders that were complete when the run began
  faults            \* environment: the failures injected so far

envVars == <<records, fs, dumpsDir>>
mainVars == <<stage, run, browser, page, i, folders, stats, thrown, mainErr, summary, slept>>
rowVars == <<result, followed, downloads, dlIdx, downloadedCount, attempt, navs, passes>>
histVars == <<results, shortfall, call, doneAtStart>>
vars == <<envVars, mainVars, pc, rowVars, histVars, faults>>

\* An operation of the environment fails (bad) only within the failure budget.
Env(bad) == IF bad THEN faults < MaxFaults /\ faults' = faults + 1
                   ELSE faults' = faults

NoCall == [dest |-> "none", before |-> -1, fetches |-> 0, last |-> "none", ret |-> "none"]
ZeroStats == [processed |-> 0, skipped |-> 0, failed |-> 0]

\* Number of records of the running stage, and the folder of record i.
Total == IF stage = 2 THEN Len(folders) ELSE Len(records)
Folder == IF stage = 2 THEN folders[i + 1] ELSE parseDateToFolder(records[i + 1])

ContentOf(f, k, name) == IF FileExists(f, k, name) THEN f[k][name] ELSE -1

\* Claim-side reading of "complete": metadata.json and an asset file.
IsAssetName(name) == name \in {"image.pdf", "full.jpg", "thumb_1000.jpg", "thumb_400.jpg",
                               "thumb_200.jpg", "image_0.jpg", "image_1.jpg", "image_2.jpg"}
FolderComplete(f, k) ==
  /\ k \in DOMAIN f
  /\ "metadata.json" \in DOMAIN f[k]
  /\ \E name \in DOMAIN f[k] : IsAssetName(name)

Init ==
  /\ records \in RecordLists
  /\ fs = [k \in {} |-> EmptyDir]
  /\ dumpsDir = FALSE
  /\ stage = 0 /\ run = 0 /\ pc = "idle"
  /\ browser = "none" /\ page = FALSE
  /\ i = 0 /\ folders = << >>
  /\ stats = ZeroStats
  /\ thrown = "none" /\ mainErr = "none" /\ summary = << >> /\ slept = 0
  /\ result = NoResult /\ followed = FALSE
  /\ downloads = << >> /\ dlIdx = 0 /\ downloadedCount = 0 /\ attempt = 0
  /\ navs = 0 /\ passes = 0
  /\ results = << >>
  /\ shortfall = [r \in 1..Len(records) |-> "never"]
  /\ call = NoCall
  /\ doneAtStart = {}
  /\ faults = 0

\* A metadata.json that parses to an object without a finalUrl: not a file
\* download.js writes, but one enrich-metadata.js tests for.
NoFinalUrl == -2

\* The data of a record that a run of download.js before this behavior wrote.
EarlierRun == 9

\* The behavior begins over a dumps directory that holds one such folder
\* beside a folder an earlier run of download.js completed.
ForeignFs ==
  [k \in {"01-01", "03-05"} |->
     IF k = "01-01" THEN [n \in {"metadata.json"} |-> NoFinalUrl]
                    ELSE [n \in {"metadata.json", "image.pdf"} |-> EarlierRun]]

InitForeign ==
  /\ records \in RecordLists
  /\ fs = ForeignFs
  /\ dumpsDir = TRUE
  /\ stage = 0 /\ run = 0 /\ pc = "idle"
  /\ browser = "none" /\ page = FALSE
  /\ i = 0 /\ folders = << >>
  /\ stats = ZeroStats
  /\ thrown = "none" /\ mainErr = "none" /\ summary = << >> /\ slept = 0
  /\ result = NoResult /\ followed = FALSE
  /\ downloads = << >> /\ dlIdx = 0 /\ downloadedCount = 0 /\ attempt = 0
  /\ navs = 0 /\ passes = 0
  /\ results = << >>
  /\ shortfall = [r \in 1..Len(records) |-> "never"]
  /\ call = NoCall
  /\ doneAtStart = {}
  /\ faults = 0

(***************************************************************************)
(* main of both stages                                                     *)
(***************************************************************************)
ResetRow ==
  /\ result' = NoResult /\ followed' = FALSE
  /\ downloads' = << >> /\ dlIdx' = 0 /\ downloadedCount' = 0 /\ attempt' = 0
  /\ navs' = 0 /\ passes' = 0

\* A new process starts: every in-memory variable is fresh, the disk is not.
NewProcess(s) ==
  /\ pc \in {"idle", "done", "rejected"}
  /\ run < MaxRuns
  /\ stage' = s /\ run' = run + 1
  /\ browser' = "none" /\ page' = FALSE
  /\ i' = 0 /\ stats' = ZeroStats
  /\ thrown' = "none" /\ summary' = << >> /\ slept' = 0
  /\ ResetRow
  /\ results' = << >> /\ call' = NoCall
  /\ doneAtStart' = {k \in DOMAIN fs : FolderComplete(fs, k)}
  /\ UNCHANGED <<records, fs, shortfall>>

\* main().catch(console.error): main has rejected with err.
Reject(err) == pc' = "rejected" /\ mainErr' = err

\* download.js main, up to the browser launch: parseCSV, mkdir DUMPS_DIR.
Start1(ok) ==
  /\ NewProcess(1)
  /\ Env(~ok)
  /\ folders' = << >>
  /\ IF ok THEN dumpsDir' = TRUE /\ pc' = "launch" /\ mainErr' = "none"
           ELSE dumpsDir' = dumpsDir /\ Reject("setup")

\* enrich-metadata.js main, up to the browser launch: the directories of
\* DUMPS_DIR, sorted.  readdir rejects when ./dumps does not exist.
Start2 ==
  /\ NewProcess(2)
  /\ Env(FALSE)
  /\ dumpsDir' = dumpsDir
  /\ IF dumpsDir
       THEN /\ folders' = SelectSeq(KeyOrder, LAMBDA k : k \in DOMAIN fs)
            /\ pc' = "launch" /\ mainErr' = "none"
       ELSE folders' = << >> /\ Reject("readdir")

\* The for statement of main: the next record, or out of the try block.
LoopPc(n) == IF n < Total THEN "record" ELSE "finally"

\* chromium.launch
Launch(ok) ==
  /\ pc = "launch"
  /\ Env(~ok)
  /\ IF ok THEN browser' = "launched" /\ pc' = "context" /\ mainErr' = mainErr
           ELSE browser' = browser /\ Reject("launch")
  /\ UNCHANGED <<envVars, stage, run, page, i, folders, stats, thrown, summary, slept,
                 rowVars, histVars>>

\* browser.newContext, context.newPage, the stats object; then the try block.
NewPage(ok) ==
  /\ pc = "context"
  /\ Env(~ok)
  /\ IF ok THEN page' = TRUE /\ pc' = LoopPc(0) /\ mainErr' = mainErr
           ELSE page' = page /\ Reject("context")
  /\ UNCHANGED <<envVars, stage, run, browser, i, folders, stats, thrown, summary, slept,
                 rowVars, histVars>>

\* Mutant: a record counted as skipped is counted as processed as well.
TallyWithoutElse(st, res) ==
  IF res.success
    THEN IF res.skipped THEN [st EXCEPT !.skipped = @ + 1, !.processed = @ + 1]
                        ELSE [st EXCEPT !.processed = @ + 1]
    ELSE [st EXCEPT !.failed = @ + 1]

\* Mutant: a skipped result is counted as processed.
TallySkippedAsProcessed(st, res) ==
  IF res.success THEN [st EXCEPT !.processed = @ + 1]
                 ELSE [st EXCEPT !.failed = @ + 1]

\* if (result.success) { if (result.skipped) skipped++ else processed++ }
\* else failed++
Tally(st, res) ==
  IF res.success
    THEN IF res.skipped THEN [st EXCEPT !.skipped = @ + 1]
                        ELSE [st EXCEPT !.processed = @ + 1]
    ELSE [st EXCEPT !.failed = @ + 1]

\* Mutant: the delay of stage 1 is applied after a skipped record too.
RowDelayAlways(res, idx, n) == IF idx < n - 1 THEN DELAY_MS ELSE 0

\* download.js: if (!result.skipped && i < records.length - 1) delay(DELAY_MS)
RowDelay(res, idx, n) == IF ~res.skipped /\ idx < n - 1 THEN DELAY_MS ELSE 0

\* enrich-metadata.js: if (!result.skipped) delay(DELAY_MS)
FolderDelay(res) == IF ~res.skipped THEN ENRICH_DELAY_MS ELSE 0

\* The counters and the delay main applies to one result, then i++.
Account ==
  /\ pc = "account"
  /\ Env(FALSE)
  /\ stats' = Tally(stats, result)
  /\ slept' = IF stage = 1 THEN RowDelay(result, i, Len(records))
                            ELSE FolderDelay(result)
  /\ i' = i + 1
  /\ pc' = LoopPc(i + 1)
  /\ results' = Append(results, result)
  /\ call' = NoCall
  /\ ResetRow
  /\ UNCHANGED <<envVars, stage, run, browser, page, folders, thrown, mainErr, summary,
                 shortfall, doneAtStart>>

\* finally { await browser.close() }: a pending exception, or one thrown
\* by close itself, leaves main; otherwise the summary follows.
Finally(ok) ==
  /\ pc = "finally"
  /\ Env(~ok)
  /\ IF ok
       THEN /\ browser' = "closed"
            /\ IF thrown # "none" THEN Reject(thrown)
                                  ELSE pc' = "summary" /\ mainErr' = mainErr
       ELSE /\ browser' = "closeFailed"
            /\ Reject("close")
  /\ UNCHANGED <<envVars, stage, run, page, i, folders, stats, thrown, summary, slept,
                 rowVars, histVars>>

(***************************************************************************)
(* processRow (stage 1)                                                    *)
(***************************************************************************)
\* Mutant: the catch block reports the record as done.
CatchRowAsSuccess(msg) == result' = Succeeded /\ pc' = "account"

\* catch (error) { return { success: false, error: error.message } }
CatchRow(msg) == result' = Failed(msg) /\ pc' = "account"

\* An exception that no handler of processRow / processFolder catches
\* leaves the for loop of main through its finally block.
Escape(err) == thrown' = err /\ pc' = "finally"

\* processRow up to its try block: the folder name and the resume test.
RowBegin ==
  /\ pc = "record" /\ stage = 1
  /\ Env(FALSE)
  /\ IF ParseDateThrows(records[i + 1])
       THEN Escape("TypeError") /\ result' = result
       ELSE /\ thrown' = thrown
            /\ IF AlreadyProcessed(fs, Folder)
                 THEN result' = Skipped /\ pc' = "account"
                 ELSE result' = result /\ pc' = "goto"
  /\ UNCHANGED <<envVars, stage, run, browser, page, i, folders, stats, mainErr, summary,
                 slept, followed, downloads, dlIdx, downloadedCount, attempt, navs,
                 passes, histVars>>

\* page.goto(row.URL) and, after an asset link was found, page.goto(link).
Goto(ok) ==
  /\ pc = "goto" /\ stage = 1
  /\ Env(~ok)
  /\ navs' = navs + 1
  /\ IF ok THEN pc' = "extract" /\ result' = result
           ELSE CatchRow("navigation")
  /\ UNCHANGED <<envVars, mainVars, followed, downloads, dlIdx, downloadedCount, attempt,
                 passes, histVars>>

\* Mutant: the asset-link lookup is repeated while the list is empty.
NeedsFallbackAgain(list, wasFollowed) == Len(list) = 0

\* if (metadata.downloads.length === 0), on the one pass that precedes it
NeedsFallback(list, wasFollowed) == Len(list) = 0 /\ ~wasFollowed

\* extractMetadata(page): the Downloads list of the page, or an exception.
\* An empty list sends the first pass to the asset-link lookup.
Extract(ok, list) ==
  /\ pc = "extract" /\ stage = 1
  /\ Env(~ok)
  /\ passes' = passes + 1
  /\ IF ok
       THEN /\ downloads' = list
            /\ result' = result
            /\ pc' = IF NeedsFallback(list, followed) THEN "assetlink" ELSE "mkdir"
       ELSE downloads' = downloads /\ CatchRow("extraction")
  /\ UNCHANGED <<envVars, mainVars, followed, dlIdx, downloadedCount, attempt, navs,
                 histVars>>

\* document.querySelector('a[href*="/asset/"]'): a link to follow, or none.
AssetLink(found) ==
  /\ pc = "assetlink" /\ stage = 1
  /\ Env(FALSE)
  /\ followed' = found
  /\ pc' = IF found THEN "goto" ELSE "mkdir"
  /\ UNCHANGED <<envVars, mainVars, result, downloads, dlIdx, downloadedCount, attempt,
                 navs, passes, histVars>>

\* fs.mkdir(folderPath, { recursive: true }), then the download loop or,
\* with no downloads, the metadata write.
Mkdir(ok) ==
  /\ pc = "mkdir" /\ stage = 1
  /\ Env(~ok)
  /\ IF ok
       THEN /\ fs' = MkdirP(fs, Folder)
            /\ result' = result
            /\ IF Len(downloads) > 0
                 THEN pc' = "download" /\ dlIdx' = 1 /\ attempt' = 1
                 ELSE pc' = "persist" /\ dlIdx' = dlIdx /\ attempt' = attempt
       ELSE fs' = fs /\ CatchRow("mkdir") /\ dlIdx' = dlIdx /\ attempt' = attempt
  /\ UNCHANGED <<records, dumpsDir, mainVars, followed, downloads, downloadedCount,
                 navs, passes, histVars>>

(***************************************************************************)
(* downloadFile and the download loop of processRow                        *)
(***************************************************************************)
\* What fs.writeFile leaves at its target.
WriteEffect(f, k, name, content, outcome) ==
  CASE outcome = "ok" -> PutFile(f, k, name, content)
    [] outcome = "truncated" -> PutFile(f, k, name, Truncated)
    [] OTHER -> f

\* The attempt reaches `return true`: response.ok and the file written.
AttemptSucceeds(outcome) == outcome = "ok"

\* Mutant: the loop gives up one attempt late.
OutOfAttemptsLate(n, retries) == n = retries + 1

\* if (attempt === retries) return false
OutOfAttempts(n, retries) == n = retries

\* Mutant: a download that returned false fails the record.
AfterDownloadStrict(success) ==
  IF success
    THEN /\ result' = result
         /\ downloadedCount' = downloadedCount + 1
         /\ IF dlIdx < Len(downloads)
              THEN dlIdx' = dlIdx + 1 /\ attempt' = 1 /\ pc' = "download"
              ELSE dlIdx' = dlIdx /\ attempt' = attempt /\ pc' = "persist"
    ELSE /\ result' = Failed("download") /\ pc' = "account"
         /\ UNCHANGED <<downloadedCount, dlIdx, attempt>>

\* Mutant: a download that returned false ends the loop over the list.
AfterDownloadBreaks(success) ==
  /\ result' = result
  /\ downloadedCount' = IF success THEN downloadedCount + 1 ELSE downloadedCount
  /\ IF success /\ dlIdx < Len(downloads)
       THEN dlIdx' = dlIdx + 1 /\ attempt' = 1 /\ pc' = "download"
       ELSE dlIdx' = dlIdx /\ attempt' = attempt /\ pc' = "persist"

\* The statement after a call of downloadFile: count a success, then the
\* next entry of the list or, after the last one, the metadata write.
AfterDownload(success) ==
  /\ result' = result
  /\ downloadedCount' = IF success THEN downloadedCount + 1 ELSE downloadedCount
  /\ IF dlIdx < Len(downloads)
       THEN dlIdx' = dlIdx + 1 /\ attempt' = 1 /\ pc' = "download"
       ELSE dlIdx' = dlIdx /\ attempt' = attempt /\ pc' = "persist"

\* One iteration of the retry loop of downloadFile for downloads[dlIdx].
DownloadAttempt(outcome) ==
  /\ pc = "download" /\ stage = 1
  /\ Env(outcome # "ok")
  /\ LET dest == Filename(downloads[dlIdx], downloadedCount)
         begun == IF attempt = 1
                    THEN [dest |-> dest, before |-> ContentOf(fs, Folder, dest),
                          fetches |-> 0, last |-> "none", ret |-> "running"]
                    ELSE call
         written == IF outcome \in WriteOutcomes THEN outcome ELSE "error"
     IN /\ fs' = WriteEffect(fs, Folder, dest, i + 1, written)
        /\ IF AttemptSucceeds(outcome)
             THEN /\ AfterDownload(TRUE)
                  /\ call' = [begun EXCEPT !.fetches = @ + 1, !.last = outcome,
                                            !.ret = "true"]
             ELSE IF OutOfAttempts(attempt, MAX_RETRIES)
               THEN /\ AfterDownload(FALSE)
                    /\ call' = [begun EXCEPT !.fetches = @ + 1, !.last = outcome,
                                              !.ret = "false"]
               ELSE /\ attempt' = attempt + 1
                    /\ UNCHANGED <<pc, dlIdx, downloadedCount, result>>
                    /\ call' = [begun EXCEPT !.fetches = @ + 1, !.last = outcome]
  /\ UNCHANGED <<records, dumpsDir, mainVars, followed, downloads, navs, passes,
                 results, shortfall, doneAtStart>>

\* How many of the listed downloads the pass that persisted left missing.
Shortfall(count, listed) ==
  IF count = listed THEN "nothing" ELSE IF count = 0 THEN "all" ELSE "some"

\* fs.writeFile(metadataPath, JSON.stringify(metadata)) and the return.
WriteMetadata(outcome) ==
  /\ pc = "persist" /\ stage = 1
  /\ Env(outcome # "ok")
  /\ fs' = WriteEffect(fs, Folder, "metadata.json", i + 1, outcome)
  /\ IF outcome = "ok"
       THEN /\ result' = Succeeded /\ pc' = "account"
            /\ shortfall' = [shortfall EXCEPT ![i + 1] =
                                Shortfall(downloadedCount, Len(downloads))]
       ELSE CatchRow("write") /\ shortfall' = shortfall
  /\ UNCHANGED <<records, dumpsDir, mainVars, followed, downloads, dlIdx,
                 downloadedCount, attempt, navs, passes, results, call, doneAtStart>>

(***************************************************************************)
(* processFolder (stage 2)                                                 *)
(***************************************************************************)
\* JSON.parse of the file's text gives an object with a finalUrl.
Parses(content) == content # Truncated

\* Mutant: the finalUrl test is left out.
HasFinalUrlUnchecked(content) == TRUE

\* if (!metadata.finalUrl) is not taken
HasFinalUrl(content) == content >= 1

\* Mutant: the already-enriched test looks at the folder, not at the file.
AlreadyEnrichedByFolder(f, k) == FolderExists(f, k)

\* Mutant: the already-enriched test looks for the wrong file.
AlreadyEnrichedWrongName(f, k) == FileExists(f, k, "enriched.json")

\* await fs.access(enrichedPath) succeeds
AlreadyEnriched(f, k) == FileExists(f, k, "video-content.json")

\* Mutant: the enriched data is written over the metadata file.
enrichedPathIsMetadataPath == "metadata.json"

\* The target of the one write of processFolder.
enrichedPath == "video-content.json"

\* processFolder up to its last try block: the already-enriched test, the
\* metadata read and the finalUrl test.
FolderBegin ==
  /\ pc = "record" /\ stage = 2
  /\ Env(FALSE)
  /\ IF AlreadyEnriched(fs, Folder)
       THEN result' = Skipped /\ pc' = "account"
       ELSE IF ~FileExists(fs, Folder, "metadata.json")
               \/ ~Parses(fs[Folder]["metadata.json"])
         THEN result' = Failed("No metadata") /\ pc' = "account"
         ELSE IF ~HasFinalUrl(fs[Folder]["metadata.json"])
           THEN result' = Failed("No finalUrl") /\ pc' = "account"
           ELSE result' = result /\ pc' = "goto"
  /\ UNCHANGED <<envVars, mainVars, followed, downloads, dlIdx, downloadedCount,
                 attempt, navs, passes, histVars>>

\* page.goto(metadata.finalUrl)
EnrichGoto(ok) ==
  /\ pc = "goto" /\ stage = 2
  /\ Env(~ok)
  /\ navs' = navs + 1
  /\ IF ok THEN pc' = "extract" /\ result' = result
           ELSE CatchRow("navigation")
  /\ UNCHANGED <<envVars, mainVars, followed, downloads, dlIdx, downloadedCount,
                 attempt, passes, histVars>>

\* extractVideoContent(page) and the enrichedData object
ExtractVideo(ok) ==
  /\ pc = "extract" /\ stage = 2
  /\ Env(~ok)
  /\ passes' = passes + 1
  /\ IF ok THEN pc' = "persist" /\ result' = result
           ELSE CatchRow("extraction")
  /\ UNCHANGED <<envVars, mainVars, followed, downloads, dlIdx, downloadedCount,
                 attempt, navs, histVars>>

\* fs.writeFile(enrichedPath, JSON.stringify(enrichedData)) and the return.
WriteEnriched(outcome) ==
  /\ pc = "persist" /\ stage = 2
  /\ Env(outcome # "ok")
  /\ fs' = WriteEffect(fs, Folder, enrichedPath, fs[Folder]["metadata.json"], outcome)
  /\ IF outcome = "ok" THEN result' = Succeeded /\ pc' = "account"
                       ELSE CatchRow("write")
  /\ UNCHANGED <<records, dumpsDir, mainVars, followed, downloads, dlIdx,
                 downloadedCount, attempt, navs, passes, histVars>>

\* The end-of-run summary: Processed / Skipped / Failed.
Summary ==
  /\ pc = "summary"
  /\ Env(FALSE)
  /\ summary' = << stats >>
  /\ pc' = "done"
  /\ UNCHANGED <<envVars, stage, run, browser, page, i, folders, stats, thrown, mainErr,
                 slept, rowVars, histVars>>

Next ==
  \/ \E ok \in BOOLEAN : Start1(ok)
  \/ Start2
  \/ \E ok \in BOOLEAN : Launch(ok)
  \/ \E ok \in BOOLEAN : NewPage(ok)
  \/ RowBegin
  \/ \E ok \in BOOLEAN : Goto(ok)
  \/ \E ok \in BOOLEAN, list \in PageLists : Extract(ok, list)
  \/ \E found \in BOOLEAN : AssetLink(found)
  \/ \E ok \in BOOLEAN : Mkdir(ok)
  \/ \E outcome \in AttemptOutcomes : DownloadAttempt(outcome)
  \/ \E outcome \in WriteOutcomes : WriteMetadata(outcome)
  \/ FolderBegin
  \/ \E ok \in BOOLEAN : EnrichGoto(ok)
  \/ \E ok \in BOOLEAN : ExtractVideo(ok)
  \/ \E outcome \in WriteOutcomes : WriteEnriched(outcome)
  \/ Account
  \/ \E ok \in BOOLEAN : Finally(ok)
  \/ Summary

Spec == Init /\ [][Next]_vars

(***************************************************************************)
(* A run that is interrupted                                               *)
(***************************************************************************)
\* The process is terminated from outside (a signal, a power cut) while
\* main runs: nothing more is written, the disk stays as it is, and the
\* record in hand, if stage 1 was inside processRow, is noted as interrupted.
Kill ==
  /\ pc \notin {"idle", "done", "rejected"}
  /\ Env(TRUE)
  /\ pc' = "rejected" /\ mainErr' = "killed"
  /\ shortfall' =
       IF stage = 1 /\ pc \in {"goto", "extract", "assetlink", "mkdir", "download", "persist"}
         THEN [shortfall EXCEPT ![i + 1] = "interrupted"]
         ELSE shortfall
  /\ UNCHANGED <<envVars, stage, run, browser, page, i, folders, stats, thrown, summary,
                 slept, rowVars, results, call, doneAtStart>>

NextOrKill == Next \/ Kill

SpecKill == Init /\ [][NextOrKill]_vars

(***************************************************************************)
(* The choice of the file name, on its own                                 *)
(***************************************************************************)
\* Entries of pageData.downloads around every threshold of the width.
Widths == {0, 1, 200, 299, 300, 400, 799, 800, 1000, 1999, 2000, 2400}
FilenameInputs ==
  { [type |-> t, resolution |-> r] :
      t \in {"pdf", "jpg"}, r \in {""} \cup { ToString(w) \o "x600" : w \in Widths } }

\* processRow stands before the file name of an entry, some downloads of
\* the record already counted.
InitFilename ==
  /\ records = << <<"January", "1", "2019">> >>
  /\ fs = ("01-01" :> EmptyDir)
  /\ dumpsDir = TRUE
  /\ stage = 1 /\ run = 1 /\ pc = "filename"
  /\ browser = "launched" /\ page = TRUE
  /\ i = 0 /\ folders = << >>
  /\ stats = ZeroStats
  /\ thrown = "none" /\ mainErr = "none" /\ summary = << >> /\ slept = 0
  /\ result = NoResult /\ followed = FALSE
  /\ \E d \in FilenameInputs : downloads = << d >>
  /\ dlIdx = 1 /\ downloadedCount \in 0..MaxCount /\ attempt = 1
  /\ navs = 1 /\ passes = 1
  /\ results = << >>
  /\ shortfall = << "never" >>
  /\ call = NoCall
  /\ doneAtStart = {}
  /\ faults = 0

\* let filename; if (download.type === 'pdf') ... else ...
ChooseFilename ==
  /\ pc = "filename"
  /\ call' = [NoCall EXCEPT !.dest = Filename(downloads[dlIdx], downloadedCount)]
  /\ pc' = "named"
  /\ UNCHANGED <<envVars, mainVars, rowVars, results, shortfall, doneAtStart, faults>>

NextFilename == ChooseFilename

SpecFilename == InitFilename /\ [][NextFilename]_vars

\* The same program over an existing dumps directory.
SpecForeign == InitForeign /\ [][Next]_vars

(***************************************************************************)
(* Properties                                                              *)
(***************************************************************************)
Ended == pc \in {"done", "rejected"}
InRecord1 == stage = 1 /\ pc \in {"goto", "extract", "assetlink", "mkdir", "download", "persist"}
AtResumeCheck == stage = 1 /\ pc = "record" /\ ~ParseDateThrows(records[i + 1])
Intact(f, k) == k \in DOMAIN f => \A name \in DOMAIN f[k] : f[k][name] # Truncated
NoAssetFile(f, k) == k \notin DOMAIN f \/ ~ \E name \in DOMAIN f[k] : IsAssetName(name)

\* C1: processRow skips a record, without navigating, downloading or writing,
\* exactly when its folder holds metadata.json and at least one asset file;
\* a folder with metadata.json and no asset file is processed again.
C1_ResumeCheck ==
  [][AtResumeCheck =>
       IF FolderComplete(fs, Folder)
         THEN result' = Skipped /\ pc' = "account" /\ fs' = fs
         ELSE result' = NoResult /\ pc' = "goto" /\ fs' = fs]_vars

\* C1 witness: a folder with metadata.json but no asset file is being reprocessed.
C1_Witness ==
  /\ stage = 1 /\ pc = "goto" /\ ~followed
  /\ FileExists(fs, Folder, "metadata.json")
  /\ NoAssetFile(fs, Folder)

\* C2: in a later stage-1 run, a record whose folder was complete when the
\* run began is skipped with the filesystem untouched, and it adds one to
\* the skipped counter and nothing to the processed counter.
C2_Idempotent ==
  [][/\ (AtResumeCheck /\ run >= 2 /\ Folder \in doneAtStart)
        => (result' = Skipped /\ pc' = "account" /\ fs' = fs)
     /\ (stage = 1 /\ run >= 2 /\ pc = "account" /\ Folder \in doneAtStart)
        => /\ stats'.skipped = stats.skipped + 1
           /\ stats'.processed = stats.processed
           /\ stats'.failed = stats.failed
           /\ fs' = fs]_vars

\* C2 witness: a second stage-1 run has counted a complete record as skipped.
C2_Witness ==
  /\ stage = 1 /\ run >= 2 /\ i >= 1
  /\ results[1] = Skipped /\ stats.skipped >= 1
  /\ parseDateToFolder(records[1]) \in doneAtStart

\* C3 (as stated): a record whose metadata.json was persisted while some or
\* all of its downloads failed is not skipped by the resume test of a later
\* run.  Folders in which a failed write left a truncated file are set aside
\* here (they are the subject of C4).
C3_RetriedWhenSomeFailed ==
  [][(AtResumeCheck /\ shortfall[i + 1] \in {"some", "all"} /\ Intact(fs, Folder))
       => pc' = "goto"]_vars

\* C3 (amended): a record whose metadata.json was persisted while its
\* downloads failed, and whose folder holds no asset file, is not skipped by
\* the resume test of a later run: it is processed again from navigation.
C3_RetriedWhenNoAsset ==
  [][(AtResumeCheck /\ shortfall[i + 1] \in {"some", "all"} /\ NoAssetFile(fs, Folder))
       => (pc' = "goto" /\ result' = NoResult)]_vars

\* C3 witness: a later run navigates again for a record persisted with every
\* download failed.
C3_Witness ==
  /\ stage = 1 /\ run >= 2 /\ pc = "goto"
  /\ shortfall[i + 1] = "all"
  /\ FileExists(fs, Folder, "metadata.json")
  /\ NoAssetFile(fs, Folder)

\* C4: a call of downloadFile that returned false has left its destination
\* as it was before the call, and was not counted; a call that returned
\* true has written its destination.
C4_NothingWrittenOnFailure ==
  (stage = 1 /\ pc \in {"download", "persist", "account"})
    => /\ call.ret = "false" => ContentOf(fs, Folder, call.dest) = call.before
       /\ call.ret = "true" => ContentOf(fs, Folder, call.dest) = i + 1

\* C5: downloadFile makes at most MAX_RETRIES attempts for one asset, stops
\* at the first attempt that succeeds, counts a non-ok status as a failed
\* attempt, and after MAX_RETRIES failures returns false without raising:
\* the record goes on to the next asset or to the metadata write.
C5_BoundedRetry ==
  [][(stage = 1 /\ pc = "download") =>
       /\ call'.fetches <= MAX_RETRIES
       /\ call'.fetches = IF attempt = 1 THEN 1 ELSE call.fetches + 1
       /\ (call.ret = "true" /\ dlIdx > 1) => attempt = 1
       /\ call'.last = "ok" =>
             /\ call'.ret = "true"
             /\ downloadedCount' = downloadedCount + 1
       /\ call'.last # "ok" =>
             /\ downloadedCount' = downloadedCount
             /\ call'.ret = IF call'.fetches = MAX_RETRIES THEN "false" ELSE "running"
       /\ call'.last = "status" => fs' = fs
       /\ call'.ret = "running" => (pc' = "download" /\ dlIdx' = dlIdx)
       /\ call'.ret # "running" =>
             IF dlIdx < Len(downloads) THEN pc' = "download" /\ dlIdx' = dlIdx + 1
                                       ELSE pc' = "persist"
       /\ result' = NoResult /\ thrown' = "none"]_vars

\* C5 witness: a record whose download ran out of attempts is returned as a success.
C5_Witness ==
  /\ stage = 1 /\ pc = "account" /\ result = Succeeded
  /\ call.ret = "false" /\ call.fetches = MAX_RETRIES

\* C6: an exception raised while a record navigates, extracts, creates its
\* folder or persists never leaves processRow: the record gets a failed
\* result, the failed counter grows by one, and main goes on to the next
\* record in input order.
C6_FailureIsolation ==
  [][/\ InRecord1 =>
          /\ thrown' = "none"
          /\ pc' \in {"goto", "extract", "assetlink", "mkdir", "download", "persist", "account"}
          /\ (faults' > faults /\ pc # "download")
               => (pc' = "account" /\ ~result'.success /\ ~result'.skipped)
     /\ (stage = 1 /\ pc = "account" /\ ~result.success) =>
          /\ stats' = [stats EXCEPT !.failed = @ + 1]
          /\ i' = i + 1
          /\ pc' = IF i + 1 < Len(records) THEN "record" ELSE "finally"
          /\ thrown' = "none"]_vars

\* C6 witness: the record after a failed one has been started.
C6_Witness ==
  /\ stage = 1 /\ i >= 1 /\ pc = "goto"
  /\ ~results[i].success /\ stats.failed >= 1

\* C7: once the page session exists, a run ends only after every record has
\* received a result and the summary has been printed.  Runs in which
\* browser.close itself failed are set aside here (they are the subject of C9).
C7_EveryRecordGetsAResult ==
  (Ended /\ page /\ browser = "closed") => (Len(results) = Total /\ summary = << stats >>)

\* C8: no run ends with a launched browser on which close was never called.
C8_SessionClosed ==
  (Ended /\ browser # "none") => browser \in {"closed", "closeFailed"}

\* C9: when every record was handled and browser.close fails, the summary
\* is printed all the same.
C9_SummaryDespiteCloseFailure ==
  (Ended /\ browser = "closeFailed" /\ thrown = "none") => summary = << stats >>

AtEnrichCheck == stage = 2 /\ pc = "record"
ReadableMetadata(f, k) ==
  FileExists(f, k, "metadata.json") /\ f[k]["metadata.json"] # Truncated
NoNavigationNoWrite == pc' = "account" /\ fs' = fs /\ navs' = 0 /\ passes' = 0

\* C11: a folder of stage 2 without video-content.json whose metadata.json is
\* missing or unreadable fails with "No metadata", one whose metadata has no
\* finalUrl fails with "No finalUrl"; neither navigates nor writes, and each
\* is counted as failed.
C11_EnrichPrecondition ==
  [][/\ (AtEnrichCheck /\ ~FileExists(fs, Folder, "video-content.json")) =>
          /\ ~ReadableMetadata(fs, Folder) =>
                result' = Failed("No metadata") /\ NoNavigationNoWrite
          /\ (ReadableMetadata(fs, Folder) /\ fs[Folder]["metadata.json"] = NoFinalUrl) =>
                result' = Failed("No finalUrl") /\ NoNavigationNoWrite
     /\ (stage = 2 /\ pc = "account"
           /\ result \in {Failed("No metadata"), Failed("No finalUrl")}) =>
          stats' = [stats EXCEPT !.failed = @ + 1]]_vars

\* C11 witness: a folder whose metadata has no finalUrl has just been failed.
C11_Witness ==
  /\ stage = 2 /\ pc = "account" /\ result = Failed("No finalUrl")
  /\ fs[Folder]["metadata.json"] = NoFinalUrl /\ navs = 0

\* C12: stage 2 skips a folder that holds video-content.json without
\* navigating or writing and counts it as skipped, so no step of stage 2
\* changes a folder that already holds video-content.json.
C12_EnrichSkip ==
  [][/\ (AtEnrichCheck /\ FileExists(fs, Folder, "video-content.json")) =>
          result' = Skipped /\ NoNavigationNoWrite
     /\ (stage = 2 /\ pc = "account" /\ result = Skipped) =>
          stats' = [stats EXCEPT !.skipped = @ + 1]
     /\ stage = 2 =>
          \A k \in DOMAIN fs :
            FileExists(fs, k, "video-content.json") => fs'[k] = fs[k]]_vars

\* C12 witness: the second run of stage 2 has skipped the folder its first
\* run enriched.
C12_Witness ==
  /\ stage = 2 /\ run = 2 /\ pc = "account" /\ result = Skipped /\ navs = 0
  /\ fs[Folder]["video-content.json"] = EarlierRun

\* C13: when main goes from one record to the next, the delay of the stage
\* (800 ms in stage 1, 500 ms in stage 2) has been applied if the record was
\* not skipped, whether it succeeded or failed, and no delay follows a
\* skipped record.
C13_InterRecordDelay ==
  [][pc = "account" =>
       /\ result.skipped => slept' = 0
       /\ (~result.skipped /\ pc' = "record") =>
            slept' = IF stage = 1 THEN DELAY_MS ELSE ENRICH_DELAY_MS]_vars

\* C13 witness: the second record of stage 1 begins after the delay that
\* followed a failed first record.
C13_Witness ==
  /\ stage = 1 /\ pc = "record" /\ i = 1
  /\ ~results[1].success /\ slept = DELAY_MS

\* C14: stage 1 looks for an asset link only after a first extraction pass
\* that listed no download, follows it at most once, and never looks again
\* after the second pass; a record has at most two navigations and two
\* extraction passes.
C14_FallbackOnce ==
  [][stage = 1 =>
       /\ (pc = "extract" /\ passes = 0 /\ pc' # "account") =>
            (pc' = "assetlink") = (Len(downloads') = 0)
       /\ (pc = "extract" /\ passes >= 1) => pc' # "assetlink"
       /\ (pc = "assetlink" /\ pc' = "goto") => navs = 1 /\ passes = 1 /\ ~followed
       /\ navs' <= 2 /\ passes' <= 2]_vars

\* C14 witness: the second pass listed no download either and the record
\* goes on without a third navigation.
C14_Witness ==
  /\ stage = 1 /\ pc = "mkdir" /\ followed
  /\ navs = 2 /\ passes = 2 /\ Len(downloads) = 0

(***************************************************************************)
(* Two records of one run with the same folder                             *)
(***************************************************************************)
\* An earlier record of this run was processed into the folder of record i.
CollidesWithProcessed ==
  \E j \in 1..i :
    /\ ~ParseDateThrows(records[j])
    /\ parseDateToFolder(records[j]) = Folder
    /\ results[j] = Succeeded

ProcessedBefore == AtResumeCheck /\ run > 1 /\ shortfall[i + 1] # "never"

InRecord == pc \in {"record", "goto", "extract", "assetlink", "mkdir", "download",
                    "persist", "account"}
Returned(c) == c.ret \in {"true", "false"}

\* C17: a record begins only when every earlier record of the run has its
\* result and nothing of an earlier record is in progress; the index moves
\* on by one, after the record's result is known and every download of its
\* list has returned; a call of downloadFile begins only after the call
\* before it has returned; the browser and the page stay the same from the
\* first record to the last.
C17_OneRecordAtATime ==
  [][/\ pc' = "record" =>
          /\ Len(results') = i' /\ result' = NoResult /\ call' = NoCall
          /\ dlIdx' = 0 /\ navs' = 0 /\ passes' = 0
     /\ (i' # i /\ pc # "account") => i' = 0 /\ pc \in {"idle", "done", "rejected"}
     /\ pc = "account" =>
          /\ i' = i + 1 /\ result # NoResult /\ call.ret # "running"
          /\ (stage = 1 /\ result = Succeeded) => dlIdx = Len(downloads)
     /\ (pc = "download" /\ attempt = 1) => call.ret # "running"
     /\ (pc = "download" /\ dlIdx' # dlIdx) => dlIdx' = dlIdx + 1 /\ Returned(call')
     /\ (stage = 1 /\ pc' = "persist") => dlIdx' = Len(downloads')
     /\ InRecord => browser = "launched" /\ page /\ browser' = browser /\ page' = page]_vars

\* C17 witness: the second record begins after the first one, two downloads
\* of which one failed, has been accounted for.
C17_Witness ==
  /\ stage = 1 /\ pc = "record" /\ i = 1
  /\ results[1] = Succeeded /\ shortfall[1] = "some" /\ call = NoCall

(***************************************************************************)
(* File names                                                              *)
(***************************************************************************)
\* C18: a pdf entry is named image.pdf whatever its resolution; another
\* entry with a resolution is named full.jpg for a width of 2000 or more,
\* thumb_1000.jpg from 800, thumb_400.jpg from 300 and thumb_200.jpg below;
\* a jpg entry without resolution is named image_<n>.jpg, n the number of
\* downloads of the record that succeeded before it.
C18_FilenameClassification ==
  pc = "named" =>
    LET d == downloads[dlIdx]
        name == call.dest
    IN /\ d.type = "pdf" => name = "image.pdf"
       /\ \A w \in Widths :
            (d.type # "pdf" /\ d.resolution = ToString(w) \o "x600") =>
               /\ w >= 2000 => name = "full.jpg"
               /\ (w >= 800 /\ w < 2000) => name = "thumb_1000.jpg"
               /\ (w >= 300 /\ w < 800) => name = "thumb_400.jpg"
               /\ w < 300 => name = "thumb_200.jpg"
       /\ (d.type # "pdf" /\ d.resolution = "") =>
            name = "image_" \o ToString(downloadedCount) \o ".jpg"

\* C18 witness: an entry of width exactly 2000 has been named full.jpg.
C18_Witness ==
  /\ pc = "named" /\ downloads[dlIdx] = [type |-> "jpg", resolution |-> "2000x600"]
  /\ call.dest = "full.jpg"

(***************************************************************************)
(* What stage 2 leaves alone                                               *)
(***************************************************************************)
\* C19: no step of stage 2 creates or removes a folder, removes a file, or
\* changes a file other than video-content.json; the one file a step
\* creates or overwrites is video-content.json of the folder in hand.
C19_Stage2ReadOnly ==
  [][stage = 2 =>
       /\ DOMAIN fs' = DOMAIN fs
       /\ \A k \in DOMAIN fs :
            /\ DOMAIN fs[k] \subseteq DOMAIN fs'[k]
            /\ DOMAIN fs'[k] \subseteq DOMAIN fs[k] \cup {"video-content.json"}
            /\ \A n \in DOMAIN fs[k] \ {"video-content.json"} : fs'[k][n] = fs[k][n]
            /\ fs'[k] # fs[k] => pc = "persist" /\ k = Folder]_vars

\* C19 witness: after two runs of stage 2, in which a folder was failed
\* twice and the other processed and then skipped, the files of stage 1
\* are what they were.
C19_Witness ==
  /\ stage = 2 /\ run = 2 /\ pc = "done"
  /\ stats = [processed |-> 0, skipped |-> 1, failed |-> 1]
  /\ fs["01-01"] = ForeignFs["01-01"]
  /\ fs["03-05"] = ForeignFs["03-05"] @@ ("video-content.json" :> EarlierRun)

(***************************************************************************)
(* The counters of a run                                                   *)
(***************************************************************************)
Sum(st) == st.processed + st.skipped + st.failed
OneMore(st, field) == [st EXCEPT ![field] = @ + 1]

\* C20: in both stages the three counters add up to the number of records
\* handled so far; handling a record adds one to exactly one of them, and
\* nothing else changes them while the run goes on; a run that reaches its
\* summary has counted every record (stage 1) or folder (stage 2).
C20_Counters ==
  [][/\ Sum(stats') = i'
     /\ pc = "account" =>
          /\ i' = i + 1
          /\ stats' \in {OneMore(stats, "processed"), OneMore(stats, "skipped"),
                          OneMore(stats, "failed")}
     /\ (pc # "account" /\ stats' # stats) =>
          stats' = ZeroStats /\ pc \in {"idle", "done", "rejected"}
     /\ pc' = "done" => Sum(stats') = Total' /\ summary' = << stats' >>]_vars

\* C20 witness: a run of stage 1 over two records has ended with one record
\* processed and one failed.
C20_Witness ==
  /\ stage = 1 /\ pc = "done" /\ Len(records) = 2
  /\ stats = [processed |-> 1, skipped |-> 0, failed |-> 1]

(***************************************************************************)
(* The order of the writes of a record                                     *)
(***************************************************************************)
NoMetadata(f, k) == ~FileExists(f, k, "metadata.json")

\* C21: stage 1 writes metadata.json of a record only when every entry of
\* its download list has been attempted, and writes nothing for the record
\* after it; so a folder without metadata.json stays without it up to that
\* write, an interruption leaves the disk as it is, and the next run finds
\* such a record not complete and processes it.
C21_MetadataWrittenLast ==
  [][/\ (stage = 1 /\ pc = "persist") =>
          /\ dlIdx = Len(downloads)
          /\ Len(downloads) > 0 => Returned(call)
          /\ pc' \in {"account", "rejected"}
     /\ (stage = 1 /\ pc = "account") => fs' = fs
     /\ \A k \in {"01-01", "03-05", "undefined"} :
          (NoMetadata(fs, k) /\ ~(stage = 1 /\ pc = "persist" /\ k = Folder)) =>
             NoMetadata(fs', k)
     /\ mainErr' = "killed" => fs' = fs
     /\ (AtResumeCheck /\ NoMetadata(fs, Folder) /\ pc' # "rejected") =>
          result' = NoResult /\ pc' = "goto"]_vars

\* C21 witness: the run before was interrupted after an asset of the record
\* was written and before its metadata.json; this run processes the record.
C21_Witness ==
  /\ stage = 1 /\ run = 2 /\ pc = "goto" /\ faults = 1
  /\ shortfall[i + 1] = "interrupted"
  /\ NoMetadata(fs, Folder) /\ ~NoAssetFile(fs, Folder)

(***************************************************************************)
(* A record that fails before its folder is made                           *)
(***************************************************************************)
BeforeMkdir == stage = 1 /\ pc \in {"record", "goto", "extract", "assetlink"}
NavigationOrExtraction == {Failed("navigation"), Failed("extraction")}

\* C22: no step of a stage-1 record before fs.mkdir touches the disk; a
\* navigation or an extraction that throws, on the first pass or after the
\* asset link, fails the record with the disk as it was; the record is
\* counted as failed and main goes on with the next one.
C22_EarlyFailureWritesNothing ==
  [][/\ BeforeMkdir => fs' = fs /\ dumpsDir' = dumpsDir
     /\ (stage = 1 /\ pc = "goto" /\ pc' = "account") =>
          result' = Failed("navigation")
     /\ (stage = 1 /\ pc = "extract" /\ pc' = "account") =>
          result' = Failed("extraction")
     /\ (stage = 1 /\ result' # result /\ result' \in NavigationOrExtraction) =>
          pc \in {"goto", "extract"}
     /\ (stage = 1 /\ pc = "account" /\ result \in NavigationOrExtraction) =>
          /\ fs' = fs /\ thrown' = "none"
          /\ stats' = [stats EXCEPT !.failed = @ + 1]
          /\ pc' = IF i + 1 < Len(records) THEN "record" ELSE "finally"]_vars

\* C22 witness: the first record failed in its extraction, nothing is on
\* disk, and the second record begins after the delay.
C22_Witness ==
  /\ stage = 1 /\ run = 1 /\ pc = "record" /\ i = 1
  /\ results[1] = Failed("extraction") /\ slept = DELAY_MS
  /\ DOMAIN fs = {} /\ stats.failed = 1

(***************************************************************************)
(* When stage 2 writes                                                     *)
(***************************************************************************)
NoVideoContent(f, k) == ~FileExists(f, k, "video-content.json")
FailedBeforeWrite == {Failed("No metadata"), Failed("No finalUrl"),
                      Failed("navigation"), Failed("extraction")}

\* C23: stage 2 creates video-content.json of a folder only at the write
\* that follows one navigation and one extraction of that folder, both
\* done; a folder failed by the precondition, the navigation or the
\* extraction has no video-content.json and nothing is written for it; a
\* folder without video-content.json is never skipped.
C23_EnrichedOnlyAfterSuccess ==
  [][stage = 2 =>
       /\ \A k \in DOMAIN fs :
            (NoVideoContent(fs, k) /\ ~NoVideoContent(fs', k)) =>
               pc = "persist" /\ k = Folder /\ navs = 1 /\ passes = 1
       /\ pc' = "persist" => pc = "extract" /\ navs' = 1 /\ passes' = 1
       /\ (pc' = "account" /\ result' \in FailedBeforeWrite) =>
            NoVideoContent(fs', Folder) /\ fs' = fs
       /\ (pc = "account" /\ result \in FailedBeforeWrite) =>
            NoVideoContent(fs', Folder) /\ fs' = fs
       /\ (pc = "record" /\ NoVideoContent(fs, Folder)) => result' # Skipped]_vars

\* C23 witness: the second run of stage 2 has tried again, and failed
\* again, the folder its first run failed before enriching the other one.
C23_Witness ==
  /\ stage = 2 /\ run = 2 /\ pc = "account" /\ i = 0
  /\ Folder = "01-01" /\ result = Failed("No finalUrl")
  /\ NoVideoContent(fs, "01-01") /\ ~NoVideoContent(fs, "03-05")


====
